---- MODULE Spec2Model ----
(***************************************************************************)
(* A model of l1l2py: the elastic-net solver and its regularization path   *)
(* (algorithms.py) and the normalization and cross-validation tools        *)
(* (l1l2py/tools.py).                                                      *)
(*                                                                         *)
(* Numbers.  The program computes on IEEE doubles.  The model computes on  *)
(* integers: every input (data, labels, penalties, step size, starting     *)
(* model) is integer valued, sums, products and differences are exact, and *)
(* the quotients (the division by 1 + mu_s in elastic_net, the division by *)
(* the determinant or squared trace in the pseudo-inverse) are rounded     *)
(* toward zero to the model's resolution.  Thresholds handed to            *)
(* _soft_thresholding are even, so that th / 2.0 is exact as it is in      *)
(* binary floating point.  The comparison difference > th is exact.        *)
(*                                                                         *)
(* Shapes.  A model and a label vector are columns ((D, 1) and (N, 1)),    *)
(* kept as tuples.  Callers pass step_size; the default computed by        *)
(* _step_size from the largest eigenvalue is not modelled.                 *)
(*                                                                         *)
(* Arrays.  The frames of the solver hold values; heap holds the same      *)
(* arrays as objects, each step computed from what the objects hold, so    *)
(* that a write into a shared array would show.                            *)
(*                                                                         *)
(* Errors and normalizations are kept as exact fractions.                  *)
(***************************************************************************)
EXTENDS Integers, Sequences, FiniteSets, TLC

(***************************************************************************)
(* Bounds of the model.                                                    *)
(***************************************************************************)
MaxN == 4          \* longest label list handed to the fold partitioner
MaxSeed == 23      \* largest rseed a caller passes
MaxEntropy == 1    \* number of distinct entropy values random.seed() draws, less one
MaxTaus == 2       \* longest tau_range handed to elastic_net_regpath
Extra == 10        \* how far past kmin the slow inputs and the large kmax reach
MaxAbs == 3        \* largest magnitude of an entry handed to _soft_thresholding
MaxHalfTh == 3     \* largest th / 2 handed to _soft_thresholding
MaxStdRows == 2    \* most rows of a matrix handed to standardize
MaxErrLen == 3     \* longest label vector handed to an error function
MaxStratN == 6     \* longest label list handed to stratified_kfold_splits alone
MaxCalls == 2      \* most calls of the fold partitioner a process makes
MaxProcN == 4      \* longest label list of those calls
MaxProcSeed == 3   \* largest rseed of those calls
MaxItems == 10     \* longest range(n) handed to kfold_splits for its fold sizes

(***************************************************************************)
(* State.                                                                  *)
(*   args  the arguments of the call of algorithms.py under way            *)
(*   pc    where that call stands                                          *)
(*   rp    the locals of elastic_net_regpath                               *)
(*   enet  the locals of elastic_net                                       *)
(*   log   one entry per tau the path loop has finished, in the order the  *)
(*         loop took them (history, not program state)                     *)
(*   ret   what the call returned                                          *)
(*   kf    the call of the fold partitioner under way and its outcome      *)
(*   random  the process-wide generator of the random module               *)
(*   st    a call of _soft_thresholding and its result                     *)
(*   sd    a call of standardize or center and its outcome                 *)
(*   er    a call of an error function and its result                      *)
(*   calls one entry per call of the fold partitioner a process has made   *)
(*         (history, not program state)                                    *)
(*   heap  the arrays of the call of algorithms.py under way: which array  *)
(*         object each name is bound to and what each object holds         *)
(***************************************************************************)
VARIABLES args, pc, rp, enet, log, ret, kf, random, st, sd, er, calls, heap

solverVars == << args, pc, rp, enet, log, ret, heap >>

vars == << args, pc, rp, enet, log, ret, kf, random, st, sd, er, calls, heap >>

(***************************************************************************)
(* Small helpers of the host language, as the code uses them.              *)
(***************************************************************************)
Abs(x) == IF x < 0 THEN -x ELSE x

Sign(x) == IF x > 0 THEN 1 ELSE IF x < 0 THEN -1 ELSE 0

Min(a, b) == IF a < b THEN a ELSE b

Max(a, b) == IF a > b THEN a ELSE b

\* Python's slice seq[a:b] for 0 <= a, 0 <= b: both ends clamp to len(seq).
Slice(seq, a, b) ==
    LET lo == Min(a, Len(seq))
        hi == Min(b, Len(seq))
    IN  IF hi <= lo THEN << >> ELSE SubSeq(seq, lo + 1, hi)

\* The set of a list's items.
Items(seq) == { seq[i] : i \in 1..Len(seq) }

\* list(range(n)): the list 0, 1, ..., n-1.
RangeList(n) == [ i \in 1..n |-> i - 1 ]

(***************************************************************************)
(* The process-wide generator of the random module.  Its state is a record *)
(* [src, val]: src tells whether the state descends from a caller's seed   *)
(* ("seed") or from the operating system's entropy ("entropy").  A draw    *)
(* below a bound is a function of the state and advances the state, which  *)
(* is all the code relies on.                                              *)
(***************************************************************************)
RngStates == [ src : {"seed", "entropy"}, val : 0..(MaxSeed + MaxEntropy + 1) ]

\* random.seed(rseed)
RandomSeed(rseed) == [ src |-> "seed", val |-> rseed ]

\* random.seed(): the states a reseed from fresh entropy can produce.
RandomReseed == { [ src |-> "entropy", val |-> e ] : e \in 0..MaxEntropy }

\* int(random() * bound): the draw and the generator after it.
RandBelow(rng, bound) ==
    [ draw |-> rng.val % bound, rng |-> [ rng EXCEPT !.val = rng.val \div bound ] ]

\* x[i], x[j] = x[j], x[i] on a list (1-based positions).
Swap(x, i, j) == [ x EXCEPT ![i] = x[j], ![j] = x[i] ]

\* random.shuffle(x): for i from len(x)-1 down to 1, swap x[i] with x[j],
\* j drawn below i+1.  ShuffleFrom(x, i, rng) runs the loop from index i.
RECURSIVE ShuffleFrom(_, _, _)
ShuffleFrom(x, i, rng) ==
    IF i < 1 THEN [ list |-> x, rng |-> rng ]
    ELSE LET d == RandBelow(rng, i + 1)
         IN  ShuffleFrom(Swap(x, i + 1, d.draw + 1), i - 1, d.rng)

RandomShuffle(x, rng) == ShuffleFrom(x, Len(x) - 1, rng)

(***************************************************************************)
(* tools.py: the fold partitioner.                                         *)
(***************************************************************************)
\* round(r / s) for r >= 0, s >= 1.  Python 2 rounds halves away from zero,
\* Python 3 rounds halves to the even neighbour; six lets the module run on
\* both, so the mode is an input of the model.
RoundModes == {"half_away", "half_even"}

PyRound(r, s, mode) ==
    LET q == r \div s
        m == r % s
    IN  IF 2 * m < s THEN q
        ELSE IF 2 * m > s THEN q + 1
        ELSE IF mode = "half_away" THEN q + 1
        ELSE IF q % 2 = 0 THEN q ELSE q + 1

\* _split_dimensions(num_items, num_splits): the (start, end) pairs the
\* generator yields.  SplitDimsFrom is the loop from a given state.
RECURSIVE SplitDimsFrom(_, _, _, _)
SplitDimsFrom(start, remaining_items, remaining_splits, mode) ==
    IF remaining_splits <= 0 THEN << >>
    ELSE LET split_size == PyRound(remaining_items, remaining_splits, mode)
             end == start + split_size
         IN  << << start, end >> >> \o
             SplitDimsFrom(end, remaining_items - split_size,
                           remaining_splits - 1, mode)

\* The chunk size taken once, before the loop, and never corrected by what
\* remains (remaining_items -= split_size left out).
_split_dimensions_EqualChunks(num_items, num_splits, mode) ==
    LET split_size == IF num_splits <= 0 THEN 0
                      ELSE PyRound(num_items, num_splits, mode)
    IN  [ f \in 1..Max(num_splits, 0) |->
            << (f - 1) * split_size, f * split_size >> ]

_split_dimensions(num_items, num_splits, mode) ==
    SplitDimsFrom(0, num_items, num_splits, mode)

\* The test chunk taken one item too long (indexes[start:end + 1]).
_splits_Overlapping(indexes, k, mode) ==
    LET dims == _split_dimensions(Len(indexes), k, mode)
    IN  [ f \in 1..Len(dims) |->
            [ train |-> Slice(indexes, 0, dims[f][1]) \o
                        Slice(indexes, dims[f][2], Len(indexes)),
              test  |-> Slice(indexes, dims[f][1], dims[f][2] + 1) ] ]

\* _splits(indexes, k): one (train, test) pair per chunk.
_splits(indexes, k, mode) ==
    LET dims == _split_dimensions(Len(indexes), k, mode)
    IN  [ f \in 1..Len(dims) |->
            [ train |-> Slice(indexes, 0, dims[f][1]) \o
                        Slice(indexes, dims[f][2], Len(indexes)),
              test  |-> Slice(indexes, dims[f][1], dims[f][2]) ] ]

\* The guard with its lower end at 1.
KfoldValid_FromOne(labels, k) == 1 <= k /\ k <= Len(labels)

\* The guard of kfold_splits.
KfoldValid(labels, k) == 2 <= k /\ k <= Len(labels)

\* The shuffle drawn from the generator as the caller left it
\* (random.seed(rseed) left out).
kfold_splits_NoSeed(labels, k, rseed, mode, reseeded, rng) ==
    IF ~KfoldValid(labels, k)
    THEN [ raised |-> "ValueError", splits |-> << >>, rng |-> rng ]
    ELSE LET sh == RandomShuffle(RangeList(Len(labels)), rng)
         IN  [ raised |-> "none",
               splits |-> _splits(sh.list, k, mode),
               rng    |-> reseeded ]

\* The generator left as the shuffle left it (the closing random.seed()
\* left out).
kfold_splits_NoReseed(labels, k, rseed, mode, reseeded, rng) ==
    IF ~KfoldValid(labels, k)
    THEN [ raised |-> "ValueError", splits |-> << >>, rng |-> rng ]
    ELSE LET sh == RandomShuffle(RangeList(Len(labels)), RandomSeed(rseed))
         IN  [ raised |-> "none",
               splits |-> _splits(sh.list, k, mode),
               rng    |-> sh.rng ]

\* kfold_splits(labels, k, rseed) from generator state rng: what it returns
\* or raises, and the generator it leaves.
kfold_splits(labels, k, rseed, mode, reseeded, rng) ==
    IF ~KfoldValid(labels, k)
    THEN [ raised |-> "ValueError", splits |-> << >>, rng |-> rng ]
    ELSE LET sh == RandomShuffle(RangeList(Len(labels)), RandomSeed(rseed))
         IN  [ raised |-> "none",
               splits |-> _splits(sh.list, k, mode),
               rng    |-> reseeded ]

\* np.unique(labels): the distinct labels, sorted.
RECURSIVE SortedList(_)
SortedList(S) ==
    IF S = {} THEN << >>
    ELSE LET least == CHOOSE x \in S : \A y \in S : x <= y
         IN  << least >> \o SortedList(S \ {least})

Unique(labels) == SortedList(Items(labels))

\* (np.where(labels == c)[0]).tolist(): the positions of c, from 0, ascending.
WhereEqual(labels, c) ==
    SelectSeq(RangeList(Len(labels)), LAMBDA i : labels[i + 1] = c)

\* The guards of stratified_kfold_splits, lines 455 and 461.
StratifiedValid(labels, k) ==
    /\ Len(Unique(labels)) = 2
    /\ 2 <= k
    /\ k <= Min(Len(WhereEqual(labels, Unique(labels)[1])),
                Len(WhereEqual(labels, Unique(labels)[2])))

\* Lines 474-478: the two lists of splits zipped.
ZipSplits(n_splits, p_splits) ==
    [ f \in 1..Min(Len(n_splits), Len(p_splits)) |->
        [ train |-> n_splits[f].train \o p_splits[f].train,
          test  |-> n_splits[f].test \o p_splits[f].test ] ]

\* The two classes shuffled and then split as one list.
stratified_kfold_splits_Unstratified(labels, k, rseed, mode, reseeded, rng) ==
    IF ~StratifiedValid(labels, k)
    THEN [ raised |-> "ValueError", splits |-> << >>, rng |-> rng ]
    ELSE LET classes   == Unique(labels)
             n_indexes == WhereEqual(labels, classes[1])
             p_indexes == WhereEqual(labels, classes[2])
             ns        == RandomShuffle(n_indexes, RandomSeed(rseed))
             ps        == RandomShuffle(p_indexes, ns.rng)
         IN  [ raised |-> "none",
               splits |-> _splits(ns.list \o ps.list, k, mode),
               rng    |-> reseeded ]

\* random.seed(rseed) moved above the two guards: a call that raises has
\* seeded the generator already.
stratified_kfold_splits_SeedFirst(labels, k, rseed, mode, reseeded, rng) ==
    IF ~StratifiedValid(labels, k)
    THEN [ raised |-> "ValueError", splits |-> << >>, rng |-> RandomSeed(rseed) ]
    ELSE LET classes   == Unique(labels)
             n_indexes == WhereEqual(labels, classes[1])
             p_indexes == WhereEqual(labels, classes[2])
             ns        == RandomShuffle(n_indexes, RandomSeed(rseed))
             n_splits  == _splits(ns.list, k, mode)
             ps        == RandomShuffle(p_indexes, ns.rng)
             p_splits  == _splits(ps.list, k, mode)
         IN  [ raised |-> "none",
               splits |-> ZipSplits(n_splits, p_splits),
               rng    |-> reseeded ]

\* stratified_kfold_splits(labels, k, rseed) from generator state rng: what
\* it returns or raises, and the generator it leaves.
stratified_kfold_splits(labels, k, rseed, mode, reseeded, rng) ==
    IF ~StratifiedValid(labels, k)
    THEN [ raised |-> "ValueError", splits |-> << >>, rng |-> rng ]
    ELSE LET classes   == Unique(labels)
             n_indexes == WhereEqual(labels, classes[1])
             p_indexes == WhereEqual(labels, classes[2])
             ns        == RandomShuffle(n_indexes, RandomSeed(rseed))
             n_splits  == _splits(ns.list, k, mode)
             ps        == RandomShuffle(p_indexes, ns.rng)
             p_splits  == _splits(ps.list, k, mode)
         IN  [ raised |-> "none",
               splits |-> ZipSplits(n_splits, p_splits),
               rng    |-> reseeded ]

(***************************************************************************)
(* algorithms.py: dense linear algebra on lists.  A vector is a tuple of   *)
(* integers, a matrix the tuple of its rows.  A data matrix is a record    *)
(* [rows, shape] so that a matrix of no rows still has its column count,   *)
(* as data.shape has.                                                      *)
(***************************************************************************)
Matrix(rows, d) == [ rows |-> rows, shape |-> << Len(rows), d >> ]

RECURSIVE SumSeq(_)
SumSeq(s) == IF s = << >> THEN 0 ELSE Head(s) + SumSeq(Tail(s))

\* np.dot of two vectors.
Dot(u, v) == SumSeq([ i \in 1..Len(u) |-> u[i] * v[i] ])

\* np.dot(matrix, vector).
MatVec(m, v) == [ i \in 1..Len(m) |-> Dot(m[i], v) ]

\* matrix.T for a matrix of `cols` columns.
Transpose(m, cols) == [ j \in 1..cols |-> [ i \in 1..Len(m) |-> m[i][j] ] ]

\* np.dot(a, b) of two matrices, b having `cols` columns.
MatMul(a, b, cols) ==
    [ i \in 1..Len(a) |-> [ j \in 1..cols |->
        SumSeq([ l \in 1..Len(b) |-> a[i][l] * b[l][j] ]) ] ]

\* np.zeros((d, 1))
Zeros(d) == [ j \in 1..d |-> 0 ]

\* len(beta.nonzero()[0])
NonzeroCount(beta) == Cardinality({ j \in 1..Len(beta) : beta[j] # 0 })

\* A quotient rounded toward zero (b > 0).
DivTrunc(a, b) == Sign(a) * (Abs(a) \div b)

\* The shrinkage without the line that zeroes the small entries.
_soft_thresholding_NoZeroing(x, th) ==
    [ i \in 1..Len(x) |-> x[i] - Sign(x[i]) * (th \div 2) ]

\* _soft_thresholding(x, th):
\*     out = x - (np.sign(x) * (th / 2.0))
\*     out[np.abs(x) < (th / 2.0)] = 0.0
_soft_thresholding(x, th) ==
    LET out == [ i \in 1..Len(x) |-> x[i] - Sign(x[i]) * (th \div 2) ]
    IN  [ i \in 1..Len(x) |-> IF 2 * Abs(x[i]) < th THEN 0 ELSE out[i] ]

(***************************************************************************)
(* ridge_regression.  np.linalg.pinv of the symmetric positive             *)
(* semidefinite matrices the code hands it, of order 0, 1 or 2, as a       *)
(* numerator matrix over a common denominator: the inverse when the        *)
(* determinant is nonzero, A / trace(A)^2 for a rank-one A, 0 for A = 0.   *)
(***************************************************************************)
Pinv(a) ==
    IF Len(a) = 0 THEN [ num |-> << >>, den |-> 1 ]
    ELSE IF Len(a) = 1
    THEN IF a[1][1] = 0 THEN [ num |-> << <<0>> >>, den |-> 1 ]
         ELSE [ num |-> << <<1>> >>, den |-> a[1][1] ]
    ELSE LET det == a[1][1] * a[2][2] - a[1][2] * a[2][1]
             tr  == a[1][1] + a[2][2]
         IN  IF det # 0
             THEN [ num |-> << << a[2][2], -a[1][2] >>, << -a[2][1], a[1][1] >> >>,
                    den |-> det ]
             ELSE IF tr # 0 THEN [ num |-> a, den |-> tr * tr ]
             ELSE [ num |-> << <<0, 0>>, <<0, 0>> >>, den |-> 1 ]

\* mu * n * np.eye(order) added to a square matrix when mu is nonzero.
AddRidge(a, mu, n) ==
    IF mu = 0 THEN a
    ELSE [ i \in 1..Len(a) |-> [ j \in 1..Len(a) |->
            a[i][j] + (IF i = j THEN mu * n ELSE 0) ] ]

ridge_regression(data, labels, mu) ==
    LET n  == data.shape[1]
        d  == data.shape[2]
        dT == Transpose(data.rows, d)
    IN  IF n < d
        THEN LET tmp == Pinv(AddRidge(MatMul(data.rows, dT, n), mu, n))
                 w   == MatVec(tmp.num, labels)
             IN  [ j \in 1..d |-> DivTrunc(Dot(dT[j], w) * Sign(tmp.den), Abs(tmp.den)) ]
        ELSE LET tmp == Pinv(AddRidge(MatMul(dT, data.rows, d), mu, n))
                 w   == MatVec(tmp.num, MatVec(dT, labels))
             IN  [ j \in 1..d |-> DivTrunc(w[j] * Sign(tmp.den), Abs(tmp.den)) ]

(***************************************************************************)
(* elastic_net: the frame of one call.  th and difference start at -inf    *)
(* and inf; a finite th is kept as the pair (|beta|, k) it is computed     *)
(* from, th = |beta| * (tol / k), so that the comparison difference > th   *)
(* is exact.                                                               *)
(***************************************************************************)
kmin == 100
TolNum == 1
TolDen == 100

None == [ some |-> FALSE, v |-> << >> ]

Some(v) == [ some |-> TRUE, v |-> v ]

\* Lines 240-255: everything elastic_net does before its loop.
ElasticNetEnter(data, labels, mu, tau, beta, step_size) ==
    LET n  == data.shape[1]
        XT == [ j \in 1..data.shape[2] |->
                  [ i \in 1..n |-> data.rows[i][j] * step_size ] ]
    IN  [ mu_s       |-> (n * mu) * step_size,
          tau_s      |-> (n * tau) * step_size,
          XT         |-> XT,
          XTY        |-> MatVec(XT, labels),
          beta       |-> IF beta.some THEN beta.v
                         ELSE ridge_regression(data, labels, 0),
          start      |-> beta,
          beta_next  |-> None,
          k          |-> 0,
          th         |-> [ inf |-> TRUE, abs |-> << >>, k |-> 0 ],
          difference |-> [ inf |-> TRUE, v |-> << >> ] ]

\* The comparison taken as difference >= th.
AnyExceeds_OrEqual(difference, th) ==
    IF th.inf \/ difference.inf
    THEN TRUE
    ELSE \E j \in 1..Len(difference.v) :
            difference.v[j] * TolDen * th.k >= th.abs[j] * TolNum

\* (difference > th).any()
AnyExceeds(difference, th) ==
    IF th.inf \/ difference.inf
    THEN TRUE
    ELSE \E j \in 1..Len(difference.v) :
            difference.v[j] * TolDen * th.k > th.abs[j] * TolNum

\* The loop condition without its floor of kmin iterations.
LoopGuard_NoFloor(en, kmax) ==
    AnyExceeds(en.difference, en.th) /\ en.k < kmax

\* The condition of the while loop, line 256.
LoopGuard(en, kmax) ==
    en.k < kmin \/ (AnyExceeds(en.difference, en.th) /\ en.k < kmax)

\* Line 259: value = beta + XTY - np.dot(XT, np.dot(data, beta)).
GradientStep(en, data) ==
    [ j \in 1..Len(en.beta) |->
        en.beta[j] + en.XTY[j] - Dot(en.XT[j], MatVec(data.rows, en.beta)) ]

\* One pass of the loop body, lines 257-264.
LoopBody(en, data) ==
    LET k         == en.k + 1
        value     == GradientStep(en, data)
        soft      == _soft_thresholding(value, en.tau_s)
        beta_next == [ j \in 1..Len(soft) |-> DivTrunc(soft[j], 1 + en.mu_s) ]
    IN  [ en EXCEPT
            !.k          = k,
            !.difference = [ inf |-> FALSE,
                             v   |-> [ j \in 1..Len(beta_next) |->
                                         Abs(beta_next[j] - en.beta[j]) ] ],
            !.th         = [ inf |-> FALSE,
                             abs |-> [ j \in 1..Len(en.beta) |-> Abs(en.beta[j]) ],
                             k   |-> k ],
            !.beta_next  = Some(beta_next),
            !.beta       = beta_next ]

\* Lines 266-269: what elastic_net returns.
ElasticNetResult(en, returns_iterations) ==
    IF returns_iterations
    THEN [ beta |-> en.beta_next.v, k |-> << en.k >> ]
    ELSE [ beta |-> en.beta, k |-> << >> ]

(***************************************************************************)
(* The arrays of a call of algorithms.py as objects.  heap.store maps the  *)
(* reference of each live array to what it holds, heap.names binds the     *)
(* caller's arguments and the locals of elastic_net_regpath and            *)
(* elastic_net to references (0: unbound), heap.next is the last reference *)
(* given out.  An arithmetic expression of numpy makes a new array; an     *)
(* assignment to a name binds the name; an indexed assignment writes into  *)
(* the array the name is bound to.                                         *)
(***************************************************************************)
NoNames ==
    [ data |-> 0, labels |-> 0, beta |-> 0,
      beta_ls |-> 0, path_beta |-> 0, out |-> << >>,
      en_beta |-> 0, value |-> 0, soft |-> 0, beta_next |-> 0,
      result |-> 0 ]

\* A new array holding v; its reference is the new heap.next.
Alloc(h, v) ==
    LET ref == h.next + 1
    IN  [ h EXCEPT !.next  = ref,
                   !.store = [ r \in (DOMAIN h.store) \cup {ref} |->
                                 IF r = ref THEN v ELSE h.store[r] ] ]

\* name = <a new array holding v>
AllocAs(h, name, v) ==
    LET h1 == Alloc(h, v)
    IN  [ h1 EXCEPT !.names[name] = h1.next ]

\* The references some name holds.
Refs(names) ==
    ({ names.data, names.labels, names.beta, names.beta_ls, names.path_beta,
       names.en_beta, names.value, names.soft, names.beta_next, names.result }
     \cup Items(names.out)) \ {0}

\* The arrays no name holds any more are freed.
Collect(h) == [ h EXCEPT !.store = [ r \in Refs(h.names) |-> h.store[r] ] ]

\* The data matrix as the heap holds it.
HeapData(h, data) == [ data EXCEPT !.rows = h.store[h.names.data] ]

\* The arrays the caller hands in: data, labels and, when given, beta.
CallerHeap(a) ==
    LET h0 == [ next |-> 0, store |-> << >>, names |-> NoNames ]
        h1 == AllocAs(h0, "data", a.data.rows)
        h2 == AllocAs(h1, "labels", a.labels)
    IN  IF a.beta.some THEN AllocAs(h2, "beta", a.beta.v) ELSE h2

\* elastic_net_regpath, lines 125-131: beta_ls is a new array; beta stays
\* the caller's array or is a new array of zeros.
HeapRegpathEnter(h, a) ==
    LET h1 == IF a.mu = 0
              THEN AllocAs(h, "beta_ls",
                           ridge_regression(HeapData(h, a.data),
                                            h.store[h.names.labels], 0))
              ELSE h
    IN  IF a.beta.some
        THEN [ h1 EXCEPT !.names.path_beta = h1.names.beta ]
        ELSE AllocAs(h1, "path_beta", Zeros(a.data.shape[2]))

\* elastic_net entered with the array `given` as beta (0: None), lines
\* 251-252: beta stays that array or is the new array ridge_regression made.
HeapElasticNetEnter(h, a, given) ==
    LET h1 == [ h EXCEPT !.names.value = 0, !.names.soft = 0,
                         !.names.beta_next = 0, !.names.en_beta = given ]
    IN  Collect(IF given # 0 THEN h1
                ELSE AllocAs(h1, "en_beta",
                             ridge_regression(HeapData(h1, a.data),
                                              h1.store[h1.names.labels], 0)))

\* The shrinkage done in the array it is handed (x -= ...; x[...] = 0.0;
\* return x).
SoftHeap_InPlace(h, x, th) ==
    LET moved  == [ i \in 1..Len(h.store[x]) |->
                      h.store[x][i] - Sign(h.store[x][i]) * (th \div 2) ]
        zeroed == [ i \in 1..Len(moved) |->
                      IF 2 * Abs(h.store[x][i]) < th THEN 0 ELSE moved[i] ]
    IN  [ heap |-> [ h EXCEPT !.store[x] = zeroed ], ref |-> x ]

\* _soft_thresholding(x, th) on the heap, lines 284-286: out is a new array
\* (x - ...), the small entries are then zeroed in out, and out is returned.
SoftHeap(h, x, th) ==
    LET h1     == Alloc(h, [ i \in 1..Len(h.store[x]) |->
                               h.store[x][i] - Sign(h.store[x][i]) * (th \div 2) ])
        out    == h1.next
        zeroed == [ i \in 1..Len(h1.store[out]) |->
                      IF 2 * Abs(h1.store[x][i]) < th THEN 0 ELSE h1.store[out][i] ]
    IN  [ heap |-> [ h1 EXCEPT !.store[out] = zeroed ], ref |-> out ]

\* One pass of the loop body on the heap, lines 259-264: value and
\* beta_next are new arrays, and beta is bound to the array of beta_next.
HeapIterate(h, en, a) ==
    LET h1 == AllocAs(h, "value",
                      GradientStep([ en EXCEPT !.beta = h.store[h.names.en_beta] ],
                                   HeapData(h, a.data)))
        sf == SoftHeap(h1, h1.names.value, en.tau_s)
        h2 == [ sf.heap EXCEPT !.names.soft = sf.ref ]
        h3 == AllocAs(h2, "beta_next",
                      [ j \in 1..Len(h2.store[sf.ref]) |->
                          DivTrunc(h2.store[sf.ref][j], 1 + en.mu_s) ])
    IN  Collect([ h3 EXCEPT !.names.en_beta = h3.names.beta_next ])

\* The locals of elastic_net go with its frame.
HeapLeaveElasticNet(h) ==
    [ h EXCEPT !.names.en_beta = 0, !.names.value = 0, !.names.soft = 0,
               !.names.beta_next = 0 ]

\* elastic_net returns, lines 266-269: the array of beta_next or of beta.
HeapElasticNetReturn(h, returns_iterations) ==
    Collect([ HeapLeaveElasticNet(h) EXCEPT
                !.names.result = IF returns_iterations
                                 THEN h.names.beta_next
                                 ELSE h.names.en_beta ])

\* Lines 139-142 on the heap: the array `ref` goes to the left of out when
\* it holds a nonzero entry, and beta is bound to it.
HeapPathKeep(h, ref) ==
    Collect([ h EXCEPT
                !.names.out = IF NonzeroCount(h.store[ref]) > 0
                              THEN << ref >> \o h.names.out
                              ELSE h.names.out,
                !.names.path_beta = ref ])

\* Line 144 on the heap: out is returned, the other locals go.
HeapRegpathReturn(h) ==
    Collect([ h EXCEPT !.names.beta_ls = 0, !.names.path_beta = 0 ])

(***************************************************************************)
(* The inputs the model draws.                                             *)
(***************************************************************************)
DataSet ==
    { Matrix(<< >>, 2),
      Matrix(<< <<1, 0>> >>, 2),
      Matrix(<< <<1, 1>> >>, 2),
      Matrix(<< <<1, 0>>, <<0, 1>> >>, 2) }

LabelVals == {-2, 1}

TauValues == {0, 2}

TauRanges == UNION { [ 1..l -> TauValues ] : l \in 0..MaxTaus }

Mus == {0, 1}

StepSizes == {1}

KmaxValues == { kmin \div 2, kmin + 2 * Extra }

BetaInits(d) ==
    { None, Some(Zeros(d)),
      Some([ j \in 1..d |-> IF j = d THEN kmin + Extra ELSE -1 ]) }

NoFrame == [ k |-> 0 ]

NoHeap == [ next |-> 0 ]

\* The parts of the state a specification does not exercise.
SolverIdle ==
    /\ args = [ entry |-> "none" ]
    /\ pc = "idle"
    /\ rp = NoFrame
    /\ enet = NoFrame
    /\ log = << >>
    /\ ret = << >>
    /\ heap = NoHeap

KfoldIdle ==
    /\ kf = [ pc |-> "idle" ]
    /\ random = [ src |-> "entropy", val |-> 0 ]
    /\ calls = << >>

SoftIdle == st = [ pc |-> "idle" ]

StandardizeIdle == sd = [ pc |-> "idle" ]

ErrorsIdle == er = [ pc |-> "idle" ]

SolverInit ==
    /\ \E entry \in {"elastic_net", "elastic_net_regpath"}, data \in DataSet,
          mu \in Mus, kmax \in KmaxValues, step_size \in StepSizes,
          tau_range \in TauRanges, returns_iterations \in BOOLEAN :
         \E labels \in [ 1..data.shape[1] -> LabelVals ],
            beta \in BetaInits(data.shape[2]) :
           /\ entry = "elastic_net" => Len(tau_range) = 1
           /\ entry = "elastic_net_regpath" => ~returns_iterations
           /\ args = [ entry |-> entry, data |-> data, labels |-> labels,
                       mu |-> mu, tau_range |-> tau_range, beta |-> beta,
                       kmax |-> kmax, step_size |-> step_size,
                       returns_iterations |-> returns_iterations ]
    /\ pc = "call"
    /\ rp = NoFrame
    /\ enet = NoFrame
    /\ log = << >>
    /\ ret = << >>
    /\ heap = CallerHeap(args)

(***************************************************************************)
(* elastic_net_regpath.                                                    *)
(***************************************************************************)
\* Lines 123-131: up to the for loop.
RegpathEnter ==
    /\ pc = "call"
    /\ args.entry = "elastic_net_regpath"
    /\ rp' = [ beta_ls |-> IF args.mu = 0
                           THEN Some(ridge_regression(args.data, args.labels, 0))
                           ELSE None,
               beta    |-> IF args.beta.some THEN args.beta
                           ELSE Some(Zeros(args.data.shape[2])),
               out     |-> << >>,
               nonzero |-> 0,
               i       |-> 0 ]
    /\ heap' = HeapRegpathEnter(heap, args)
    /\ pc' = "for"
    /\ UNCHANGED << args, enet, log, ret, kf, random, st, sd, er, calls >>

\* tau_range taken front to back.
ReversedIndex_Forward(tau_range, i) == i + 1

\* reversed(tau_range): the position in tau_range of the i-th tau taken (i from 0).
ReversedIndex(tau_range, i) == Len(tau_range) - i

\* The test of line 133.
LassoSaturation(mu, nonzero, n) == mu = 0 /\ nonzero >= n

\* The warm start moved only when the model is kept.
PathKeep_WarmStartKeptOnly(frame, beta_next) ==
    [ frame EXCEPT
        !.out  = IF NonzeroCount(beta_next) > 0
                 THEN << beta_next >> \o frame.out
                 ELSE frame.out,
        !.beta = IF NonzeroCount(beta_next) > 0
                 THEN Some(beta_next)
                 ELSE frame.beta,
        !.i    = frame.i + 1 ]

\* The model appended on the right (append for appendleft).
PathKeep_Append(frame, beta_next) ==
    [ frame EXCEPT
        !.out  = IF NonzeroCount(beta_next) > 0
                 THEN frame.out \o << beta_next >>
                 ELSE frame.out,
        !.beta = Some(beta_next),
        !.i    = frame.i + 1 ]

\* Every model kept, all-zero or not.
PathKeep_KeepAll(frame, beta_next) ==
    [ frame EXCEPT
        !.out  = << beta_next >> \o frame.out,
        !.beta = Some(beta_next),
        !.i    = frame.i + 1 ]

\* Lines 139-142: the end of the loop body, once beta_next is known.
PathKeep(frame, beta_next) ==
    [ frame EXCEPT
        !.out  = IF NonzeroCount(beta_next) > 0
                 THEN << beta_next >> \o frame.out
                 ELSE frame.out,
        !.beta = Some(beta_next),
        !.i    = frame.i + 1 ]

\* Lines 132-134, 139-142: a tau taken on the saturated branch.
PathSaturated ==
    /\ pc = "for"
    /\ rp.i < Len(args.tau_range)
    /\ LassoSaturation(args.mu, rp.nonzero, args.data.shape[1])
    /\ LET idx == ReversedIndex(args.tau_range, rp.i)
       IN  /\ rp' = PathKeep(rp, rp.beta_ls.v)
           /\ log' = Append(log, [ index |-> idx, tau |-> args.tau_range[idx],
                                   solver |-> FALSE, start |-> rp.beta,
                                   result |-> rp.beta_ls.v, k |-> 0 ])
    /\ heap' = HeapPathKeep(heap, heap.names.beta_ls)
    /\ UNCHANGED << args, pc, enet, ret, kf, random, st, sd, er, calls >>

\* Lines 132-137: a tau handed to elastic_net.
PathSolve ==
    /\ pc = "for"
    /\ rp.i < Len(args.tau_range)
    /\ ~LassoSaturation(args.mu, rp.nonzero, args.data.shape[1])
    /\ enet' = ElasticNetEnter(args.data, args.labels, args.mu,
                             args.tau_range[ReversedIndex(args.tau_range, rp.i)],
                             rp.beta, args.step_size)
    /\ heap' = HeapElasticNetEnter(heap, args, heap.names.path_beta)
    /\ pc' = "while"
    /\ UNCHANGED << args, rp, log, ret, kf, random, st, sd, er, calls >>

\* Line 144: the loop is over.
RegpathReturn ==
    /\ pc = "for"
    /\ rp.i = Len(args.tau_range)
    /\ ret' = rp.out
    /\ heap' = HeapRegpathReturn(heap)
    /\ pc' = "done"
    /\ UNCHANGED << args, rp, enet, log, kf, random, st, sd, er, calls >>

(***************************************************************************)
(* elastic_net.                                                            *)
(***************************************************************************)
\* A direct call of elastic_net.
ElasticNetCall ==
    /\ pc = "call"
    /\ args.entry = "elastic_net"
    /\ enet' = ElasticNetEnter(args.data, args.labels, args.mu, args.tau_range[1],
                             args.beta, args.step_size)
    /\ heap' = HeapElasticNetEnter(heap, args, heap.names.beta)
    /\ pc' = "while"
    /\ UNCHANGED << args, rp, log, ret, kf, random, st, sd, er, calls >>

\* One iteration of the while loop.
Iterate ==
    /\ pc = "while"
    /\ LoopGuard(enet, args.kmax)
    /\ enet' = LoopBody(enet, args.data)
    /\ heap' = HeapIterate(heap, enet, args)
    /\ UNCHANGED << args, pc, rp, log, ret, kf, random, st, sd, er, calls >>

\* The loop is left and a direct call returns.
ElasticNetReturn ==
    /\ pc = "while"
    /\ ~LoopGuard(enet, args.kmax)
    /\ args.entry = "elastic_net"
    /\ ret' = ElasticNetResult(enet, args.returns_iterations)
    /\ heap' = HeapElasticNetReturn(heap, args.returns_iterations)
    /\ pc' = "done"
    /\ UNCHANGED << args, rp, enet, log, kf, random, st, sd, er, calls >>

\* The loop is left and the call made by elastic_net_regpath returns into
\* lines 139-142.
ElasticNetReturnToPath ==
    /\ pc = "while"
    /\ ~LoopGuard(enet, args.kmax)
    /\ args.entry = "elastic_net_regpath"
    /\ LET beta_next == ElasticNetResult(enet, FALSE).beta
           idx       == ReversedIndex(args.tau_range, rp.i)
       IN  /\ rp' = PathKeep(rp, beta_next)
           /\ log' = Append(log, [ index |-> idx, tau |-> args.tau_range[idx],
                                   solver |-> TRUE, start |-> enet.start,
                                   result |-> beta_next, k |-> enet.k ])
    /\ heap' = HeapPathKeep(HeapLeaveElasticNet(heap), heap.names.en_beta)
    /\ pc' = "for"
    /\ UNCHANGED << args, enet, ret, kf, random, st, sd, er, calls >>

SolverNext ==
    \/ RegpathEnter
    \/ PathSaturated
    \/ PathSolve
    \/ RegpathReturn
    \/ ElasticNetCall
    \/ Iterate
    \/ ElasticNetReturn
    \/ ElasticNetReturnToPath

Init == SolverInit /\ KfoldIdle /\ SoftIdle /\ StandardizeIdle /\ ErrorsIdle

Next == SolverNext

Spec == Init /\ [][Next]_vars

(***************************************************************************)
(* tools.py: the fold partitioner as a call.                               *)
(***************************************************************************)
LabelLists == UNION { [ 1..n -> {-1, 1} ] : n \in 0..MaxN }

KfoldInit ==
    /\ \E labels \in LabelLists, k \in 0..(MaxN + 1), rseed \in 0..MaxSeed,
          mode \in RoundModes :
         kf = [ pc |-> "call", labels |-> labels, k |-> k, rseed |-> rseed,
                mode |-> mode, raised |-> "none", splits |-> << >> ]
    /\ random \in RandomReseed
    /\ calls = << >>

\* kfold_splits raises, lines 394-396.
KfoldRaise ==
    /\ kf.pc = "call"
    /\ ~KfoldValid(kf.labels, kf.k)
    /\ LET r == kfold_splits(kf.labels, kf.k, kf.rseed, kf.mode, random, random)
       IN  /\ kf' = [ kf EXCEPT !.pc = "raised", !.raised = r.raised ]
           /\ random' = r.rng
    /\ UNCHANGED << solverVars, st, sd, er, calls >>

\* kfold_splits returns, lines 398-404.
KfoldReturn ==
    /\ kf.pc = "call"
    /\ KfoldValid(kf.labels, kf.k)
    /\ \E reseeded \in RandomReseed :
         LET r == kfold_splits(kf.labels, kf.k, kf.rseed, kf.mode, reseeded, random)
         IN  /\ kf' = [ kf EXCEPT !.pc = "returned", !.splits = r.splits ]
             /\ random' = r.rng
    /\ UNCHANGED << solverVars, st, sd, er, calls >>

KfoldNext == KfoldRaise \/ KfoldReturn

InitKfold == KfoldInit /\ SolverIdle /\ SoftIdle /\ StandardizeIdle /\ ErrorsIdle

SpecKfold == InitKfold /\ [][KfoldNext]_vars

(***************************************************************************)
(* tools.py: kfold_splits called as its docstring calls it, on range(n),   *)
(* for lists long enough to show the sizes of the folds.                   *)
(***************************************************************************)
RangeLabelLists == { RangeList(n) : n \in 0..MaxItems }

FoldsInit ==
    /\ \E labels \in RangeLabelLists, k \in 0..(MaxItems + 1),
          rseed \in 0..MaxSeed, mode \in RoundModes :
         kf = [ pc |-> "call", labels |-> labels, k |-> k, rseed |-> rseed,
                mode |-> mode, raised |-> "none", splits |-> << >> ]
    /\ random \in RandomReseed
    /\ calls = << >>

InitFolds == FoldsInit /\ SolverIdle /\ SoftIdle /\ StandardizeIdle /\ ErrorsIdle

SpecFolds == InitFolds /\ [][KfoldNext]_vars

(***************************************************************************)
(* tools.py: stratified_kfold_splits as a call.                            *)
(***************************************************************************)
StratLabelLists == UNION { [ 1..n -> {-1, 1} ] : n \in 0..MaxStratN }

StratifiedInit ==
    /\ \E labels \in StratLabelLists, k \in 0..(MaxStratN \div 2 + 1),
          rseed \in 0..MaxSeed, mode \in RoundModes :
         kf = [ pc |-> "call", labels |-> labels, k |-> k, rseed |-> rseed,
                mode |-> mode, raised |-> "none", splits |-> << >> ]
    /\ random \in RandomReseed
    /\ calls = << >>

\* stratified_kfold_splits raises, lines 454-463.
StratifiedRaise ==
    /\ kf.pc = "call"
    /\ ~StratifiedValid(kf.labels, kf.k)
    /\ LET r == stratified_kfold_splits(kf.labels, kf.k, kf.rseed, kf.mode,
                                        random, random)
       IN  /\ kf' = [ kf EXCEPT !.pc = "raised", !.raised = r.raised ]
           /\ random' = r.rng
    /\ UNCHANGED << solverVars, st, sd, er, calls >>

\* stratified_kfold_splits returns, lines 465-480.
StratifiedReturn ==
    /\ kf.pc = "call"
    /\ StratifiedValid(kf.labels, kf.k)
    /\ \E reseeded \in RandomReseed :
         LET r == stratified_kfold_splits(kf.labels, kf.k, kf.rseed, kf.mode,
                                          reseeded, random)
         IN  /\ kf' = [ kf EXCEPT !.pc = "returned", !.splits = r.splits ]
             /\ random' = r.rng
    /\ UNCHANGED << solverVars, st, sd, er, calls >>

StratifiedNext == StratifiedRaise \/ StratifiedReturn

InitStratified ==
    StratifiedInit /\ SolverIdle /\ SoftIdle /\ StandardizeIdle /\ ErrorsIdle

SpecStratified == InitStratified /\ [][StratifiedNext]_vars

(***************************************************************************)
(* tools.py: a process that calls one fold partitioner again and again     *)
(* with the same arguments, while other users of the random module seed    *)
(* the process-wide generator and draw from it in between.                 *)
(***************************************************************************)
ProcLabelLists == UNION { [ 1..n -> {-1, 1} ] : n \in 0..MaxProcN }

OtherSeeds == {0, 1}

ProcessInit ==
    /\ \E fn \in {"kfold_splits", "stratified_kfold_splits"},
          labels \in ProcLabelLists, k \in 0..(MaxProcN + 1),
          rseed \in 0..MaxProcSeed, mode \in RoundModes :
         kf = [ pc |-> "process", fn |-> fn, labels |-> labels, k |-> k,
                rseed |-> rseed, mode |-> mode ]
    /\ random \in RandomReseed
    /\ calls = << >>

\* One call, from its first line to its return or raise.
PartitionerCall ==
    /\ kf.pc = "process"
    /\ Len(calls) < MaxCalls
    /\ \E reseeded \in RandomReseed :
         LET r == IF kf.fn = "kfold_splits"
                  THEN kfold_splits(kf.labels, kf.k, kf.rseed, kf.mode,
                                    reseeded, random)
                  ELSE stratified_kfold_splits(kf.labels, kf.k, kf.rseed, kf.mode,
                                               reseeded, random)
         IN  /\ calls' = Append(calls, [ raised |-> r.raised,
                                         splits |-> r.splits,
                                         before |-> random.src,
                                         after  |-> r.rng.src ])
             /\ random' = r.rng
    /\ UNCHANGED << solverVars, kf, st, sd, er >>

\* Another user of the module calls random.seed(s).
OtherCallerSeeds ==
    /\ kf.pc = "process"
    /\ \E s \in OtherSeeds : random' = RandomSeed(s)
    /\ UNCHANGED << solverVars, kf, st, sd, er, calls >>

\* Another user of the module draws a number.
OtherCallerDraws ==
    /\ kf.pc = "process"
    /\ random' = RandBelow(random, 2).rng
    /\ UNCHANGED << solverVars, kf, st, sd, er, calls >>

ProcessNext == PartitionerCall \/ OtherCallerSeeds \/ OtherCallerDraws

InitProcess ==
    ProcessInit /\ SolverIdle /\ SoftIdle /\ StandardizeIdle /\ ErrorsIdle

SpecProcess == InitProcess /\ [][ProcessNext]_vars

(***************************************************************************)
(* algorithms.py: _soft_thresholding as a call.                            *)
(***************************************************************************)
Vectors == UNION { [ 1..n -> -MaxAbs..MaxAbs ] : n \in 1..2 }

Thresholds == { 2 * h : h \in 0..MaxHalfTh }

SoftInit ==
    \E x \in Vectors, th \in Thresholds :
        st = [ pc |-> "call", x |-> x, th |-> th, out |-> << >> ]

SoftCall ==
    /\ st.pc = "call"
    /\ st' = [ st EXCEPT !.pc = "returned", !.out = _soft_thresholding(st.x, st.th) ]
    /\ UNCHANGED << solverVars, kf, random, sd, er, calls >>

SoftNext == SoftCall

InitSoft == SoftInit /\ SolverIdle /\ KfoldIdle /\ StandardizeIdle /\ ErrorsIdle

SpecSoft == InitSoft /\ [][SoftNext]_vars

(***************************************************************************)
(* tools.py: standardize.  An array is a record [ndim, rows]: rows is the  *)
(* tuple of its rows, each a tuple of its columns' entries; a              *)
(* one-dimensional array of N entries has N rows of one entry, as the      *)
(* docstring reads it.  The statistics are kept exact: a mean is the       *)
(* fraction num / den, a standard deviation with ddof = 1 is               *)
(* sqrt(q / m) / n with q the sum of the (n x - sum)^2 and m = n - 1, and  *)
(* a standardized entry is num / sqrt(q / m).  A zero den or m is numpy's  *)
(* nan (0 / 0).                                                            *)
(***************************************************************************)
Array(ndim, rows) == [ ndim |-> ndim, rows |-> rows ]

\* matrix.shape[0]
NumRows(matrix) == Len(matrix.rows)

ColumnSum(matrix, j) == SumSeq([ i \in 1..Len(matrix.rows) |-> matrix.rows[i][j] ])

\* matrix.mean(axis=0), column j.
ColumnMean(matrix, j) == [ num |-> ColumnSum(matrix, j), den |-> NumRows(matrix) ]

\* matrix.std(axis=0, ddof=1), column j.
ColumnStd(matrix, j) ==
    LET n == NumRows(matrix)
    IN  [ q |-> SumSeq([ i \in 1..n |->
                   (n * matrix.rows[i][j] - ColumnSum(matrix, j))
                 * (n * matrix.rows[i][j] - ColumnSum(matrix, j)) ]),
          m |-> Max(n - 1, 0),
          n |-> n ]

\* (other - mean) / std for the mean and std of matrix, entry by entry.
Standardized(other, matrix, cols) ==
    [ i \in 1..Len(other.rows) |-> [ j \in 1..cols |->
        [ num |-> NumRows(matrix) * other.rows[i][j] - ColumnSum(matrix, j),
          q   |-> ColumnStd(matrix, j).q,
          m   |-> ColumnStd(matrix, j).m ] ] ]

\* The test of line 211.
SingleRow(matrix) == matrix.ndim = 2 /\ NumRows(matrix) = 1

\* The optional matrix rescaled by its own mean and deviation.
standardize_OwnFactors(matrix, cols, optional_matrix, return_factors) ==
    IF SingleRow(matrix)
    THEN [ raised |-> "ValueError", matrix |-> << >>, optional |-> None,
           mean |-> None, std |-> None ]
    ELSE [ raised   |-> "none",
           matrix   |-> Standardized(matrix, matrix, cols),
           optional |-> IF optional_matrix.some
                        THEN Some(Standardized(optional_matrix.v,
                                               optional_matrix.v, cols))
                        ELSE None,
           mean     |-> IF return_factors
                        THEN Some([ j \in 1..cols |-> ColumnMean(matrix, j) ])
                        ELSE None,
           std      |-> IF return_factors
                        THEN Some([ j \in 1..cols |-> ColumnStd(matrix, j) ])
                        ELSE None ]

\* standardize(matrix, optional_matrix, return_factors), lines 211-228.
standardize(matrix, cols, optional_matrix, return_factors) ==
    IF SingleRow(matrix)
    THEN [ raised |-> "ValueError", matrix |-> << >>, optional |-> None,
           mean |-> None, std |-> None ]
    ELSE [ raised   |-> "none",
           matrix   |-> Standardized(matrix, matrix, cols),
           optional |-> IF optional_matrix.some
                        THEN Some(Standardized(optional_matrix.v, matrix, cols))
                        ELSE None,
           mean     |-> IF return_factors
                        THEN Some([ j \in 1..cols |-> ColumnMean(matrix, j) ])
                        ELSE None,
           std      |-> IF return_factors
                        THEN Some([ j \in 1..cols |-> ColumnStd(matrix, j) ])
                        ELSE None ]

\* (other - mean) for the mean of matrix, entry by entry: the fraction
\* (n other - sum) / n.
Centered(other, matrix, cols) ==
    [ i \in 1..Len(other.rows) |-> [ j \in 1..cols |->
        [ num |-> NumRows(matrix) * other.rows[i][j] - ColumnSum(matrix, j),
          den |-> NumRows(matrix) ] ] ]

\* center(matrix, optional_matrix, return_mean), lines 133-146.
center(matrix, cols, optional_matrix, return_mean) ==
    [ raised   |-> "none",
      matrix   |-> Centered(matrix, matrix, cols),
      optional |-> IF optional_matrix.some
                   THEN Some(Centered(optional_matrix.v, matrix, cols))
                   ELSE None,
      mean     |-> IF return_mean
                   THEN Some([ j \in 1..cols |-> ColumnMean(matrix, j) ])
                   ELSE None ]

StdVals == {0, 1, 3}

\* The arrays of a given dimension and column count with at most `most` rows.
Arrays(ndim, cols, most) ==
    { Array(ndim, rows) :
        rows \in UNION { [ 1..n -> [ 1..cols -> StdVals ] ] : n \in 0..most } }

StandardizeInit ==
    \E ndim \in {1, 2}, cols \in {1, 2}, return_factors \in BOOLEAN :
        /\ ndim = 1 => cols = 1
        /\ \E matrix \in Arrays(ndim, cols, MaxStdRows),
              optional_matrix \in { None } \cup
                  { Some(a) : a \in Arrays(ndim, cols, 1) } :
             sd = [ pc |-> "call", fn |-> "standardize",
                    matrix |-> matrix, cols |-> cols,
                    optional_matrix |-> optional_matrix,
                    return_factors |-> return_factors,
                    result |-> << >> ]

StandardizeRaise ==
    /\ sd.pc = "call"
    /\ sd.fn = "standardize"
    /\ SingleRow(sd.matrix)
    /\ sd' = [ sd EXCEPT !.pc = "raised",
                 !.result = standardize(sd.matrix, sd.cols, sd.optional_matrix,
                                        sd.return_factors) ]
    /\ UNCHANGED << solverVars, kf, random, st, er, calls >>

StandardizeReturn ==
    /\ sd.pc = "call"
    /\ sd.fn = "standardize"
    /\ ~SingleRow(sd.matrix)
    /\ sd' = [ sd EXCEPT !.pc = "returned",
                 !.result = standardize(sd.matrix, sd.cols, sd.optional_matrix,
                                        sd.return_factors) ]
    /\ UNCHANGED << solverVars, kf, random, st, er, calls >>

StandardizeNext == StandardizeRaise \/ StandardizeReturn

InitStandardize == StandardizeInit /\ SolverIdle /\ KfoldIdle /\ SoftIdle /\ ErrorsIdle

SpecStandardize == InitStandardize /\ [][StandardizeNext]_vars

(***************************************************************************)
(* tools.py: center as a call, and the two normalizations together.        *)
(***************************************************************************)
CenterInit ==
    \E ndim \in {1, 2}, cols \in {1, 2}, return_mean \in BOOLEAN :
        /\ ndim = 1 => cols = 1
        /\ \E matrix \in Arrays(ndim, cols, MaxStdRows),
              optional_matrix \in { None } \cup
                  { Some(a) : a \in Arrays(ndim, cols, 1) } :
             sd = [ pc |-> "call", fn |-> "center",
                    matrix |-> matrix, cols |-> cols,
                    optional_matrix |-> optional_matrix,
                    return_factors |-> return_mean,
                    result |-> << >> ]

CenterReturn ==
    /\ sd.pc = "call"
    /\ sd.fn = "center"
    /\ sd' = [ sd EXCEPT !.pc = "returned",
                 !.result = center(sd.matrix, sd.cols, sd.optional_matrix,
                                   sd.return_factors) ]
    /\ UNCHANGED << solverVars, kf, random, st, er, calls >>

NormalizeInit == StandardizeInit \/ CenterInit

NormalizeNext == StandardizeNext \/ CenterReturn

InitNormalize == NormalizeInit /\ SolverIdle /\ KfoldIdle /\ SoftIdle /\ ErrorsIdle

SpecNormalize == InitNormalize /\ [][NormalizeNext]_vars

(***************************************************************************)
(* tools.py: the error functions.  An error is kept exact, as the fraction *)
(* num / den; den = 0 with num = 0 is numpy's nan (0.0 / 0.0).             *)
(***************************************************************************)
\* The indicator taken on the values instead of on their signs.
Mismatch_OnValues(labels, predictions) ==
    [ i \in 1..Len(labels) |-> IF labels[i] # predictions[i] THEN 1 ELSE 0 ]

\* np.sign(labels) != np.sign(predictions), as 0s and 1s.
Mismatch(labels, predictions) ==
    [ i \in 1..Len(labels) |->
        IF Sign(labels[i]) # Sign(predictions[i]) THEN 1 ELSE 0 ]

\* classification_error(labels, predictions), lines 272-275.  The quotient
\* is taken on Python numbers, so a division by 0.0 raises.
classification_error(labels, predictions) ==
    LET difference == Mismatch(labels, predictions)
        nonzero    == { i \in 1..Len(difference) : difference[i] # 0 }
    IN  IF Len(labels) = 0
        THEN [ raised |-> "ZeroDivisionError", num |-> 0, den |-> 0 ]
        ELSE [ raised |-> "none", num |-> Cardinality(nonzero),
               den |-> Len(labels) ]

\* The weights taken as the labels themselves, not centered.
DefaultWeights_NotCentered(labels) ==
    [ i \in 1..Len(labels) |-> [ num |-> Abs(Len(labels) * labels[i]),
                                 den |-> Len(labels) ] ]

\* np.abs(center(labels)), line 322: one fraction per label.
DefaultWeights(labels) ==
    LET column   == Array(1, [ i \in 1..Len(labels) |-> << labels[i] >> ])
        centered == center(column, 1, None, FALSE).matrix
    IN  [ i \in 1..Len(labels) |-> [ num |-> Abs(centered[i][1].num),
                                     den |-> centered[i][1].den ] ]

\* balanced_classification_error(labels, predictions, error_weights),
\* lines 319-325.  The quotient is taken on a numpy number, so a division
\* by 0.0 gives nan.  Given weights are integers, the default ones
\* fractions over len(labels).
balanced_classification_error(labels, predictions, error_weights) ==
    LET n       == Len(labels)
        weights == IF error_weights.some
                   THEN [ i \in 1..n |-> [ num |-> error_weights.v[i], den |-> 1 ] ]
                   ELSE DefaultWeights(labels)
        errors  == [ i \in 1..n |-> Mismatch(labels, predictions)[i] * weights[i].num ]
    IN  [ raised |-> "none",
          num    |-> SumSeq(errors),
          den    |-> IF error_weights.some THEN n ELSE n * n ]

ErrLabelVals == {-1, 1, 2}

PredictionVals == {-2, -1, 0, 1}

WeightVals == {0, 1}

ErrorsInit ==
    \E n \in 0..MaxErrLen, fn \in {"classification_error",
                                    "balanced_classification_error"} :
        \E labels \in [ 1..n -> ErrLabelVals ],
           predictions \in [ 1..n -> PredictionVals ],
           error_weights \in { None } \cup { Some(w) : w \in [ 1..n -> WeightVals ] } :
          /\ fn = "classification_error" => error_weights = None
          /\ er = [ pc |-> "call", fn |-> fn, labels |-> labels,
                    predictions |-> predictions,
                    error_weights |-> error_weights,
                    result |-> << >> ]

ClassificationErrorReturn ==
    /\ er.pc = "call"
    /\ er.fn = "classification_error"
    /\ Len(er.labels) # 0
    /\ er' = [ er EXCEPT !.pc = "returned",
                 !.result = classification_error(er.labels, er.predictions) ]
    /\ UNCHANGED << solverVars, kf, random, st, sd, calls >>

ClassificationErrorRaise ==
    /\ er.pc = "call"
    /\ er.fn = "classification_error"
    /\ Len(er.labels) = 0
    /\ er' = [ er EXCEPT !.pc = "raised",
                 !.result = classification_error(er.labels, er.predictions) ]
    /\ UNCHANGED << solverVars, kf, random, st, sd, calls >>

BalancedErrorReturn ==
    /\ er.pc = "call"
    /\ er.fn = "balanced_classification_error"
    /\ er' = [ er EXCEPT !.pc = "returned",
                 !.result = balanced_classification_error(
                                er.labels, er.predictions, er.error_weights) ]
    /\ UNCHANGED << solverVars, kf, random, st, sd, calls >>

ErrorsNext ==
    \/ ClassificationErrorReturn
    \/ ClassificationErrorRaise
    \/ BalancedErrorReturn

InitErrors == ErrorsInit /\ SolverIdle /\ KfoldIdle /\ SoftIdle /\ StandardizeIdle

SpecErrors == InitErrors /\ [][ErrorsNext]_vars

(***************************************************************************)
(* Vocabulary of the claims about algorithms.py.                           *)
(***************************************************************************)
InPath == args.entry = "elastic_net_regpath"

InDirect == args.entry = "elastic_net"

NumSamples == args.data.shape[1]

IsAscending(seq) == \A i, j \in 1..Len(seq) : i < j => seq[i] <= seq[j]

IsStrictlyDescending(seq) == \A i, j \in 1..Len(seq) : i < j => seq[i] > seq[j]

AllZero(beta) == NonzeroCount(beta) = 0

\* The log entry of the tau at position i of tau_range.
LogAt(i) == CHOOSE e \in Items(log) : e.index = i

Logged(i) == \E e \in Items(log) : e.index = i

\* The positions of tau_range whose model has a nonzero entry, in increasing order.
KeptIndexes ==
    SelectSeq([ i \in 1..Len(args.tau_range) |-> i ],
              LAMBDA i : Logged(i) /\ ~AllZero(LogAt(i).result))

\* The first pass of the loop of a direct call, computed from its arguments.
FirstPass ==
    LoopBody(ElasticNetEnter(args.data, args.labels, args.mu, args.tau_range[1],
                             args.beta, args.step_size), args.data)

(***************************************************************************)
(* C2.  max_iters (kmax) is a hard ceiling of elastic_net: the number of   *)
(* iterations performed never exceeds kmax, and when the convergence test  *)
(* never passes the loop is left when the count reaches kmax.              *)
(***************************************************************************)
C2_IterationsNeverExceedKmax ==
    pc \in {"while", "for", "done"} /\ enet # NoFrame => enet.k <= args.kmax

(***************************************************************************)
(* C3.  elastic_net never stops before its floor of 100 iterations: the    *)
(* loop is left only with k >= 100, and the iteration count a direct call  *)
(* returns is at least 100, also when the change of the first iteration is *)
(* already within the threshold.                                           *)
(***************************************************************************)
C3_FloorOfIterations ==
    /\ pc = "done" /\ InDirect /\ args.returns_iterations => ret.k[1] >= 100
    /\ pc = "done" /\ InDirect => enet.k >= 100
    /\ \A p \in 1..Len(log) : log[p].solver => log[p].k >= 100

C3_Witness ==
    /\ pc = "done" /\ InDirect /\ args.returns_iterations
    /\ ~AnyExceeds(FirstPass.difference, FirstPass.th)
    /\ ret.k = << 100 >>

(***************************************************************************)
(* C4.  Lasso saturation: once mu = 0 and the model of a path point has at *)
(* least N nonzero entries, every later path point is the precomputed      *)
(* ridge_regression(data, labels, 0) and elastic_net is not called for it. *)
(***************************************************************************)
C4_SaturationShortcut ==
    InPath /\ args.mu = 0 =>
        \A p, q \in 1..Len(log) :
            p < q /\ NonzeroCount(log[p].result) >= NumSamples =>
                /\ ~log[q].solver
                /\ log[q].result = ridge_regression(args.data, args.labels, 0)

(***************************************************************************)
(* C5.  The original statement: handed a descending tau sequence,          *)
(* elastic_net_regpath takes the taus from largest to smallest, each once. *)
(***************************************************************************)
C5_DescendingInputLargestFirst ==
    pc = "done" /\ InPath /\ NumSamples >= 1
    /\ IsStrictlyDescending(args.tau_range) =>
        /\ Len(log) = Len(args.tau_range)
        /\ \A p, q \in 1..Len(log) : p < q => log[p].tau > log[q].tau

(***************************************************************************)
(* C5, amended.  elastic_net_regpath takes tau_range from its last entry   *)
(* to its first, each entry once; so the taus are taken from largest to    *)
(* smallest when tau_range is ascending.  elastic_net is called for each   *)
(* of them when data has a row or mu is not 0.                             *)
(***************************************************************************)
C5_ConsumedLastToFirst ==
    InPath =>
        /\ \A p \in 1..Len(log) :
              /\ log[p].index = Len(args.tau_range) - p + 1
              /\ log[p].tau = args.tau_range[log[p].index]
        /\ pc = "done" => Len(log) = Len(args.tau_range)
        /\ IsAscending(args.tau_range) =>
              \A p, q \in 1..Len(log) : p < q => log[p].tau >= log[q].tau
        /\ NumSamples >= 1 \/ args.mu # 0 =>
              \A p \in 1..Len(log) : log[p].solver

C5_Witness ==
    /\ pc = "done" /\ InPath /\ NumSamples >= 1
    /\ args.tau_range = << 0, 2 >>
    /\ Len(log) = 2 /\ log[1].tau = 2 /\ log[2].tau = 0
    /\ log[1].solver /\ log[2].solver

(***************************************************************************)
(* C6.  Warm-start chain: the first solve of a path starts from the        *)
(* caller's beta, and every later solve starts from the model of the path  *)
(* point before it, also when that model is all zero and was left out of   *)
(* the returned path.                                                      *)
(***************************************************************************)
C6_WarmStartChain ==
    InPath =>
        \A p \in 1..Len(log) :
            log[p].solver =>
                IF p = 1
                THEN args.beta.some => log[p].start = args.beta
                ELSE log[p].start = Some(log[p - 1].result)

C6_Witness ==
    /\ InPath /\ args.beta.some /\ ~AllZero(args.beta.v)
    /\ Len(log) = 2
    /\ log[1].solver /\ log[2].solver
    /\ AllZero(log[1].result)
    /\ Len(rp.out) = 0

(***************************************************************************)
(* C7.  The original statement: every model of the returned path sits at   *)
(* the position of its tau in tau_range.                                   *)
(***************************************************************************)
C7_OutputAlignedWithTaus ==
    pc = "done" /\ InPath =>
        \A i \in 1..Len(ret) : ret[i] = LogAt(i).result

(***************************************************************************)
(* C7, amended.  The i-th model of the returned path is the model of the   *)
(* i-th tau of tau_range among those whose model has a nonzero entry; it   *)
(* sits at the position of its tau when no tau at that position or before  *)
(* it yields an all-zero model.                                            *)
(***************************************************************************)
C7_OutputAlignedWithKeptTaus ==
    pc = "done" /\ InPath =>
        /\ Len(ret) = Len(KeptIndexes)
        /\ \A i \in 1..Len(ret) :
              /\ ret[i] = LogAt(KeptIndexes[i]).result
              /\ (\A j \in 1..i : ~AllZero(LogAt(j).result)) =>
                    /\ KeptIndexes[i] = i
                    /\ ret[i] = LogAt(i).result

C7_Witness ==
    /\ pc = "done" /\ InPath
    /\ Len(args.tau_range) = 2 /\ Len(ret) = 1
    /\ AllZero(LogAt(1).result)
    /\ ret[1] = LogAt(2).result

(***************************************************************************)
(* C8.  elastic_net_regpath returns only models with a nonzero entry: no   *)
(* all-zero result is in the output, every result with a nonzero entry is  *)
(* in it once, in the order of tau_range, so the output is no longer than  *)
(* tau_range.                                                              *)
(***************************************************************************)
C8_OnlyNonzeroModels ==
    pc = "done" /\ InPath =>
        /\ \A i \in 1..Len(ret) : ~AllZero(ret[i])
        /\ ret = SelectSeq([ i \in 1..Len(args.tau_range) |-> LogAt(i).result ],
                           LAMBDA b : ~AllZero(b))
        /\ Len(ret) <= Len(args.tau_range)
        /\ args.tau_range = << >> => ret = << >>

C8_Witness ==
    /\ pc = "done" /\ InPath
    /\ Len(args.tau_range) = 2 /\ Len(ret) = 1
    /\ AllZero(LogAt(2).result)
    /\ ~AllZero(LogAt(1).result)

(***************************************************************************)
(* C1.  kfold_splits returns exactly k folds; the test sets are pairwise   *)
(* disjoint and together hold each of 0..N-1 once; in each fold the train  *)
(* set is the complement of the test set.                                  *)
(***************************************************************************)
C1_FoldPartition ==
    kf.pc = "returned" =>
        LET N      == Len(kf.labels)
            All    == 0..(N - 1)
            splits == kf.splits
        IN  /\ Len(splits) = kf.k
            /\ \A f, g \in 1..Len(splits) :
                  f # g => Items(splits[f].test) \cap Items(splits[g].test) = {}
            /\ UNION { Items(splits[f].test) : f \in 1..Len(splits) } = All
            /\ \A f \in 1..Len(splits) :
                  /\ Cardinality(Items(splits[f].test)) = Len(splits[f].test)
                  /\ Items(splits[f].train) \cap Items(splits[f].test) = {}
                  /\ Items(splits[f].train) \cup Items(splits[f].test) = All
                  /\ Len(splits[f].train) + Len(splits[f].test) = N

C1_Witness ==
    /\ kf.pc = "returned"
    /\ Len(kf.labels) = 4 /\ kf.k = 3
    /\ \E f \in 1..Len(kf.splits) : Len(kf.splits[f].test) = 2
    /\ kf.splits[1].test # << 0 >>

(***************************************************************************)
(* C9.  _soft_thresholding(x, th) for th >= 0, entry by entry: 0 where     *)
(* |x| < th/2 and x - sign(x) * (th/2) elsewhere; so th = 0 gives x back,  *)
(* no entry grows in magnitude and none changes sign.                      *)
(***************************************************************************)
C9_SoftThresholding ==
    st.pc = "returned" =>
        /\ Len(st.out) = Len(st.x)
        /\ \A i \in 1..Len(st.x) :
              /\ 2 * Abs(st.x[i]) < st.th => st.out[i] = 0
              /\ 2 * Abs(st.x[i]) >= st.th =>
                    2 * st.out[i] = 2 * st.x[i] - Sign(st.x[i]) * st.th
              /\ Abs(st.out[i]) <= Abs(st.x[i])
              /\ st.out[i] * st.x[i] >= 0
        /\ st.th = 0 => st.out = st.x

C9_Witness ==
    /\ st.pc = "returned"
    /\ st.x = << -3, 1 >> /\ st.th = 4
    /\ st.out = << -1, 0 >>

(***************************************************************************)
(* C10.  standardize raises ValueError whenever its matrix has fewer than  *)
(* 2 rows, whatever its shape: one row of a 2-D matrix, no row, a 1-D      *)
(* vector of one entry.                                                    *)
(***************************************************************************)
C10_FewerThanTwoRowsRaises ==
    sd.pc \in {"returned", "raised"} /\ NumRows(sd.matrix) < 2 =>
        sd.pc = "raised" /\ sd.result.raised = "ValueError"

(***************************************************************************)
(* Vocabulary of the claims about the normalizations: the column sums of   *)
(* the training matrix and of its squared deviations, written out.         *)
(***************************************************************************)
TrainRows == Len(sd.matrix.rows)

TrainSum(j) == SumSeq([ i \in 1..TrainRows |-> sd.matrix.rows[i][j] ])

TrainSquares(j) ==
    SumSeq([ i \in 1..TrainRows |->
               (TrainRows * sd.matrix.rows[i][j] - TrainSum(j))
             * (TrainRows * sd.matrix.rows[i][j] - TrainSum(j)) ])

\* x less the training mean (center), over the training deviation with
\* ddof = 1 (standardize), in the model's exact form.
TrainNormalized(x, j) ==
    IF sd.fn = "center"
    THEN [ num |-> TrainRows * x - TrainSum(j), den |-> TrainRows ]
    ELSE [ num |-> TrainRows * x - TrainSum(j),
           q   |-> TrainSquares(j),
           m   |-> IF TrainRows = 0 THEN 0 ELSE TrainRows - 1 ]

(***************************************************************************)
(* C11.  Normalization factors come from the training matrix only: the     *)
(* test matrix center and standardize return is (test - mean(train)),      *)
(* resp. (test - mean(train)) / std(train) with ddof = 1; the returned     *)
(* training matrix, mean and std are functions of the training matrix      *)
(* alone, the same whatever the test argument is (None included).          *)
(***************************************************************************)
C11_TrainFactorsOnly ==
    sd.pc = "returned" =>
        /\ sd.result.matrix =
              [ i \in 1..TrainRows |-> [ j \in 1..sd.cols |->
                  TrainNormalized(sd.matrix.rows[i][j], j) ] ]
        /\ sd.result.optional =
              IF sd.optional_matrix.some
              THEN Some([ i \in 1..Len(sd.optional_matrix.v.rows) |->
                            [ j \in 1..sd.cols |->
                                TrainNormalized(sd.optional_matrix.v.rows[i][j], j) ] ])
              ELSE None
        /\ sd.result.mean =
              IF sd.return_factors
              THEN Some([ j \in 1..sd.cols |->
                            [ num |-> TrainSum(j), den |-> TrainRows ] ])
              ELSE None
        /\ sd.fn = "standardize" =>
              sd.result.std =
                IF sd.return_factors
                THEN Some([ j \in 1..sd.cols |->
                              [ q |-> TrainSquares(j),
                                m |-> IF TrainRows = 0 THEN 0 ELSE TrainRows - 1,
                                n |-> TrainRows ] ])
                ELSE None

\* standardize has returned a test row rescaled by factors that differ from
\* the test row's own.
C11_Witness ==
    /\ sd.pc = "returned" /\ sd.fn = "standardize"
    /\ sd.matrix.rows = << << 0, 1 >>, << 3, 1 >> >>
    /\ sd.optional_matrix = Some(Array(2, << << 1, 3 >> >>))
    /\ sd.result.optional.v[1][1] = [ num |-> -1, q |-> 18, m |-> 1 ]
    /\ sd.result.optional.v[1][2] = [ num |-> 4, q |-> 0, m |-> 1 ]

SignErrors ==
    { i \in 1..Len(er.labels) : Sign(er.labels[i]) # Sign(er.predictions[i]) }

LabelSum == SumSeq(er.labels)

\* |labels[i] - mean(labels)|, times len(labels).
Deviation(i) == Abs(Len(er.labels) * er.labels[i] - LabelSum)

\* The number of labels of the class (the sign) of labels[i].
ClassSize(i) ==
    Cardinality({ j \in 1..Len(er.labels) : Sign(er.labels[j]) = Sign(er.labels[i]) })

(***************************************************************************)
(* C13.  classification_error(labels, predicted) is the number of          *)
(* positions where sign(labels[i]) != sign(predicted[i]) over N: it lies   *)
(* in [0, 1], is 0 exactly when all signs agree, depends on the            *)
(* predictions only through their signs, and is 1/3 for labels [1,1,1]     *)
(* and predictions [1,1,-1].                                               *)
(***************************************************************************)
C13_ClassificationError ==
    er.pc = "returned" /\ er.fn = "classification_error" =>
        /\ er.result.raised = "none"
        /\ er.result.num = Cardinality(SignErrors)
        /\ er.result.den = Len(er.labels)
        /\ 0 <= er.result.num /\ er.result.num <= er.result.den
        /\ er.result.num = 0 <=>
              \A i \in 1..Len(er.labels) : Sign(er.labels[i]) = Sign(er.predictions[i])
        /\ \A other \in [ 1..Len(er.labels) -> PredictionVals ] :
              (\A i \in 1..Len(er.labels) : Sign(other[i]) = Sign(er.predictions[i]))
                  => classification_error(er.labels, other) = er.result
        /\ er.labels = << 1, 1, 1 >> /\ er.predictions = << 1, 1, -1 >> =>
              er.result.num = 1 /\ er.result.den = 3

C13_Witness ==
    /\ er.pc = "returned" /\ er.fn = "classification_error"
    /\ er.labels = << 1, 1, 1 >> /\ er.predictions = << 1, 1, -1 >>
    /\ er.result.num = 1 /\ er.result.den = 3

ClassIndexes(c) == { i \in 0..(Len(kf.labels) - 1) : kf.labels[i + 1] = c }

\* How many items of a list are positions of class c.
CountOfClass(list, c) ==
    Cardinality({ p \in 1..Len(list) : list[p] \in ClassIndexes(c) })

(***************************************************************************)
(* C15.  stratified_kfold_splits, for binary labels and 2 <= k <= the size *)
(* of the smaller class: the k test sets partition the index set, each     *)
(* train set is the complement of its test set, and each test set holds    *)
(* floor(n_c / k) or ceil(n_c / k) indices of each class c of n_c labels.  *)
(***************************************************************************)
C15_StratifiedPartition ==
    kf.pc = "returned" =>
        LET N      == Len(kf.labels)
            All    == 0..(N - 1)
            splits == kf.splits
        IN  /\ Len(splits) = kf.k
            /\ \A f, g \in 1..Len(splits) :
                  f # g => Items(splits[f].test) \cap Items(splits[g].test) = {}
            /\ UNION { Items(splits[f].test) : f \in 1..Len(splits) } = All
            /\ \A f \in 1..Len(splits) :
                  /\ Cardinality(Items(splits[f].test)) = Len(splits[f].test)
                  /\ Items(splits[f].train) \cap Items(splits[f].test) = {}
                  /\ Items(splits[f].train) \cup Items(splits[f].test) = All
                  /\ Len(splits[f].train) + Len(splits[f].test) = N
                  /\ \A c \in Items(kf.labels) :
                        LET n_c == Cardinality(ClassIndexes(c))
                            got == CountOfClass(splits[f].test, c)
                        IN  /\ n_c \div kf.k <= got
                            /\ got * kf.k < n_c + kf.k

\* Classes of 3 and 2 labels in 2 folds: a fold with 2 and a fold with 1
\* of the larger class.
C15_Witness ==
    /\ kf.pc = "returned" /\ kf.k = 2
    /\ kf.labels = << 1, -1, 1, -1, 1 >>
    /\ CountOfClass(kf.splits[1].test, 1) = 2
    /\ CountOfClass(kf.splits[2].test, 1) = 1
    /\ CountOfClass(kf.splits[1].test, -1) = 1

(***************************************************************************)
(* C16.  The fold partitioner is deterministic given a seed: two calls of  *)
(* kfold_splits (of stratified_kfold_splits) with the same labels, k and   *)
(* rseed return the same splits, whatever the state of the process-wide    *)
(* generator before each call and whatever others did with it in between.  *)
(***************************************************************************)
C16_DeterministicGivenSeed ==
    kf.pc = "process" =>
        \A i, j \in 1..Len(calls) :
            /\ calls[i].raised = calls[j].raised
            /\ calls[i].splits = calls[j].splits

\* Two calls that returned, the first from a generator seeded from entropy,
\* the second from one another caller had seeded.
C16_Witness ==
    /\ kf.pc = "process" /\ Len(calls) = 2
    /\ Len(kf.labels) = 4
    /\ calls[1].raised = "none" /\ calls[2].raised = "none"
    /\ calls[1].before = "entropy" /\ calls[2].before = "seed"
    /\ calls[1].splits = calls[2].splits
    /\ calls[1].splits[1].test # << 0 >>

(***************************************************************************)
(* C17.  The fold partitioner does not leak its seed: after every          *)
(* successful return of kfold_splits or stratified_kfold_splits the        *)
(* process-wide generator has been reseeded from fresh entropy after the   *)
(* last shuffle, so it is never left in a state determined by rseed.       *)
(***************************************************************************)
C17_NoSeedLeak ==
    kf.pc = "process" =>
        \A i \in 1..Len(calls) :
            calls[i].raised = "none" => calls[i].after = "entropy"

\* A call that found the generator seeded by another caller and left it
\* seeded from entropy.
C17_Witness ==
    /\ kf.pc = "process" /\ Len(calls) = 1
    /\ calls[1].raised = "none"
    /\ calls[1].before = "seed" /\ calls[1].after = "entropy"
    /\ random.src = "entropy"

(***************************************************************************)
(* C18.  elastic_net_regpath called with beta None starts the iterations   *)
(* of its first solve from the OLS solution ridge_regression(data, labels, *)
(* 0), as elastic_net does when its beta is None.                          *)
(***************************************************************************)
C18_PathStartsFromOLS ==
    /\ InPath /\ ~args.beta.some
    /\ pc = "while" /\ Len(log) = 0 /\ enet.k = 0
    =>  enet.beta = ridge_regression(args.data, args.labels, 0)

(***************************************************************************)
(* Vocabulary of the claim about the convergence test.                     *)
(***************************************************************************)
\* Some entry moved by more than |before[i]| * (0.01 / k) from before to after.
MovedBeyondTolerance(before, after, k) ==
    \E i \in 1..Len(before) :
        Abs(after[i] - before[i]) * 100 * k > Abs(before[i])

\* This step is an iteration of the loop.
IterationStep == pc = "while" /\ pc' = "while" /\ enet'.k = enet.k + 1

(***************************************************************************)
(* C19.  The convergence test of elastic_net: for every count k with       *)
(* 100 <= k < kmax, the loop stops after the k-th update exactly when      *)
(* every entry i has |beta_next[i] - beta[i]| <= |beta[i]| * (0.01 / k),   *)
(* beta being the iterate before the k-th update; when one entry exceeds   *)
(* its threshold the loop performs iteration k + 1.  As a property of the  *)
(* steps: an iteration records the change and the threshold of the iterate *)
(* it started from, and the step after it is an iteration exactly when     *)
(* some entry of that record exceeds.                                      *)
(***************************************************************************)
C19_ConvergenceTest ==
    [][ /\ IterationStep =>
              /\ enet'.difference =
                    [ inf |-> FALSE,
                      v   |-> [ i \in 1..Len(enet.beta) |->
                                  Abs(enet'.beta[i] - enet.beta[i]) ] ]
              /\ enet'.th =
                    [ inf |-> FALSE,
                      abs |-> [ i \in 1..Len(enet.beta) |-> Abs(enet.beta[i]) ],
                      k   |-> enet'.k ]
              /\ MovedBeyondTolerance(enet.beta, enet'.beta, enet'.k) <=>
                    \E i \in 1..Len(enet.beta) :
                        enet'.difference.v[i] * 100 * enet'.k > enet'.th.abs[i]
        /\ pc = "while" /\ 100 <= enet.k /\ enet.k < args.kmax =>
              IF \E i \in 1..Len(enet.beta) :
                     enet.difference.v[i] * 100 * enet.k > enet.th.abs[i]
              THEN IterationStep
              ELSE pc' \in {"done", "for"} /\ enet'.k = enet.k
      ]_vars

\* A call that went on past the floor, an entry having moved beyond its
\* tolerance, and stopped below kmax once none did.
C19_Witness ==
    /\ pc = "done" /\ InDirect
    /\ 100 < enet.k /\ enet.k < args.kmax
    /\ \A i \in 1..Len(enet.beta) :
           enet.difference.v[i] * 100 * enet.k <= enet.th.abs[i]

(***************************************************************************)
(* Vocabulary of the claim about the arrays.                               *)
(***************************************************************************)
\* The references of the arrays the caller handed in.
CallerRefs == { heap.names.data, heap.names.labels, heap.names.beta } \ {0}

\* The references of the arrays elastic_net_regpath holds.
PathRefs ==
    ({ heap.names.beta_ls, heap.names.path_beta } \cup Items(heap.names.out)) \ {0}

(***************************************************************************)
(* C20.  Models are never mutated in place: _soft_thresholding returns a   *)
(* new array and leaves its input x as it was; elastic_net and             *)
(* elastic_net_regpath leave the caller's data, labels and beta as they    *)
(* were; every iteration binds beta to a new array, so a model already in  *)
(* the path is not changed by the solves that follow.                      *)
(***************************************************************************)
C20_NoInPlaceMutation ==
    pc \in {"call", "for", "while", "done"} =>
        /\ heap.store[heap.names.data] = args.data.rows
        /\ heap.store[heap.names.labels] = args.labels
        /\ args.beta.some => heap.store[heap.names.beta] = args.beta.v
        /\ heap.names.value # 0 =>
              /\ heap.names.soft # heap.names.value
              /\ heap.store[heap.names.soft] =
                    _soft_thresholding(heap.store[heap.names.value], enet.tau_s)
        /\ pc = "while" /\ enet.k >= 1 =>
              /\ heap.names.en_beta \notin CallerRefs \cup PathRefs
              /\ heap.store[heap.names.en_beta] = enet.beta
        /\ InPath /\ pc # "call" =>
              /\ Len(heap.names.out) = Len(rp.out)
              /\ \A i \in 1..Len(rp.out) :
                    heap.store[heap.names.out[i]] = rp.out[i]
        /\ pc = "done" /\ InDirect =>
              /\ heap.names.result \notin CallerRefs
              /\ heap.store[heap.names.result] = ret.beta

\* A path of two models returned, warm-started from the caller's beta: two
\* arrays, neither of them the caller's, each shrunk from a nonzero value.
C20_Witness ==
    /\ pc = "done" /\ InPath /\ args.beta.some
    /\ Len(ret) = 2
    /\ heap.names.out[1] # heap.names.out[2]
    /\ heap.names.beta \notin Items(heap.names.out)
    /\ heap.store[heap.names.beta] = args.beta.v
    /\ args.tau_range = << 2, 2 >> /\ NumSamples >= 1

(***************************************************************************)
(* C21.  Fold sizes are balanced: for every N and k with 2 <= k <= N the   *)
(* chunk bounds _split_dimensions(N, k) yields are contiguous (the first   *)
(* start is 0, each start is the end before it, the last end is N), the    *)
(* test set of every fold kfold_splits returns is the chunk of its bounds  *)
(* and is not empty, and the sizes of any two test sets differ by at most  *)
(* one; 10 indices with k = 2 give two test sets of length 5.              *)
(***************************************************************************)
ChunkBounds == _split_dimensions(Len(kf.labels), kf.k, kf.mode)

TestSize(f) == Len(kf.splits[f].test)

C21_BalancedFolds ==
    kf.pc = "returned" /\ 2 <= kf.k /\ kf.k <= Len(kf.labels) =>
        /\ Len(ChunkBounds) = kf.k
        /\ ChunkBounds[1][1] = 0
        /\ \A f \in 2..kf.k : ChunkBounds[f][1] = ChunkBounds[f - 1][2]
        /\ ChunkBounds[kf.k][2] = Len(kf.labels)
        /\ Len(kf.splits) = kf.k
        /\ \A f \in 1..kf.k :
              /\ TestSize(f) = ChunkBounds[f][2] - ChunkBounds[f][1]
              /\ TestSize(f) >= 1
        /\ \A f, g \in 1..kf.k : TestSize(f) - TestSize(g) <= 1
        /\ Len(kf.labels) = 10 /\ kf.k = 2 =>
              TestSize(1) = 5 /\ TestSize(2) = 5

\* kfold_splits(range(10), 4) returned, where 10 / 4 leaves a remainder:
\* folds of two sizes, a larger one after a smaller one.
C21_Witness ==
    /\ kf.pc = "returned"
    /\ Len(kf.labels) = 10 /\ kf.k = 4
    /\ \E f, g \in 1..kf.k : f < g /\ TestSize(f) = 2 /\ TestSize(g) = 3


(***************************************************************************)
(* C22.  Validation precedes any effect: a call of kfold_splits or of      *)
(* stratified_kfold_splits that raises ValueError (k out of range, or      *)
(* labels not of exactly two classes) raises before the process-wide       *)
(* generator is seeded or drawn from, so the step of a failing call leaves *)
(* the generator exactly as it found it; and the calls that raise are      *)
(* those whose arguments fail the guards.                                  *)
(***************************************************************************)
CallStep == Len(calls') = Len(calls) + 1

ArgumentsValid ==
    IF kf.fn = "kfold_splits"
    THEN KfoldValid(kf.labels, kf.k)
    ELSE StratifiedValid(kf.labels, kf.k)

C22_ValidationPrecedesEffect ==
    [][ CallStep =>
          /\ calls'[Len(calls')].raised = "ValueError" <=> ~ArgumentsValid
          /\ calls'[Len(calls')].raised = "ValueError" => random' = random
      ]_vars

\* stratified_kfold_splits given labels of one class and rseed 0 raised,
\* having found the generator as another caller's random.seed(1) left it,
\* and the generator is in that state still.
C22_Witness ==
    /\ kf.pc = "process" /\ kf.fn = "stratified_kfold_splits"
    /\ Len(kf.labels) = 4 /\ Len(Unique(kf.labels)) = 1
    /\ kf.k = 2 /\ kf.rseed = 0
    /\ Len(calls) = 1
    /\ calls[1].raised = "ValueError"
    /\ calls[1].before = "seed" /\ calls[1].after = "seed"
    /\ random = RandomSeed(1)

====
